---- MODULE Spec2Model ----
(***************************************************************************)
(* State-machine model of the web-spatial front-end: the planet store      *)
(* (useUniverseStore), the mood store (useNeuroState), the chat spawn      *)
(* parser and submit handler of IntelligenceInput, and the dashboard poll  *)
(* and chat handler of EvolvedRealityEngine (app/page.tsx).                *)
(*                                                                         *)
(* Numbers with decimals are exact decimals [m |-> mantissa, e |-> digits  *)
(* after the point], i.e. m / 10^e, normalised (Dec).  Strings that the    *)
(* code scans are sequences of one-character strings.  Time is counted in  *)
(* units of 100 ms.                                                        *)
(***************************************************************************)
EXTENDS Integers, Sequences, FiniteSets, TLC

VARIABLES
    \* useUniverseStore
    modality, selectedTicker, hoveredTicker, cameraFocus, isFocusMode, universeItems,
    \* useNeuroState
    mood, intensity, focus, glitchFactor, atmosphereColor,
    \* pending setTimeout callbacks, in creation order: [kind, rem, arg]
    timers,
    \* number of pulseGlitch calls made so far
    pulses,
    \* IntelligenceInput: the useState values, the position of handleSubmit and
    \* the chart fetches in flight
    iiQuery, iiLoading, iiResponse, iiChartData, iiPc, iiCharts,
    \* the query of the latest submit that passed the blank check, and the
    \* fetch() calls that submit has made so far
    iiSubmitted, iiIssued,
    \* EvolvedRealityEngine (app/page.tsx): whether API_URL is a localhost URL
    \* while the page is served from another host, the useState values of the
    \* dashboard, whether the polling effect has run, and the fetchAll calls in
    \* flight
    mockMode, metrics, logs, portfolio, loading, connected, evolutionLevel, pageTicker,
    mounted, interval, polls, pollsStarted,
    \* the chat of EvolvedRealityEngine: the useState values, the handleChat calls
    \* in flight and the number of messages sent
    chatInput, chatHistory, chats, chatsSent,
    \* UniverseCanvas: the useState value pulseActive; StaticVoidTerminal: its
    \* useState values input and logs; ProceduralAudioEngine: whether the audio
    \* graph exists (audioContext.current) and the targets of the ramps last
    \* scheduled on the master gain, the filter and the oscillator
    pulseActive, termInput, termLogs, audioReady, gainTarget, freqTarget, pitchTarget,
    \* CameraController: camera.position, controls.target and the number of
    \* frames rendered so far
    cameraPos, controlsTarget, frames,
    \* the universe shader of GlassPanel.tsx: the uniform uUniverseId and the
    \* universeFunction calls of the last run of multiUniverseDisplacement
    uUniverseId, shaderTerms,
    \* IntelligenceTerminal: its useState values, the handleResearch calls in
    \* flight and the number of requests sent
    itQuery, itResponse, itLoading, itError, itOpen, itCalls, itSent,
    \* the call or callback that made the last step: [op, ...arguments]
    lastCall

storeVars == <<modality, selectedTicker, hoveredTicker, cameraFocus, isFocusMode, universeItems>>
neuroVars == <<mood, intensity, focus, glitchFactor, atmosphereColor>>
inputVars == <<iiQuery, iiLoading, iiResponse, iiChartData, iiPc, iiCharts, iiSubmitted, iiIssued>>
dashVars == <<metrics, logs, portfolio, loading, connected, evolutionLevel, pageTicker, mounted, interval, polls, pollsStarted>>
chatVars == <<chatInput, chatHistory, chats, chatsSent>>
canvasVars == <<pulseActive, termInput, termLogs, audioReady, gainTarget, freqTarget, pitchTarget>>
pageVars == <<inputVars, mockMode, dashVars, chatVars>>
cameraVars == <<cameraPos, controlsTarget, frames>>
shaderVars == <<uUniverseId, shaderTerms>>
intelVars == <<itQuery, itResponse, itLoading, itError, itOpen, itCalls, itSent>>
sceneVars == <<cameraVars, shaderVars, intelVars>>
restVars == <<canvasVars, sceneVars>>
appVars == <<pageVars, restVars>>
vars == <<storeVars, neuroVars, timers, pulses, appVars, lastCall>>

----------------------------------------------------------------------------
(* Values *)

\* JavaScript null and undefined where a string may stand: one-element sequences
\* that no string of characters equals; the empty string is << >>
Null == <<"null">>
Undefined == <<"undefined">>
\* parseFloat's NaN, beside the decimals
NaN == [m |-> 0, e |-> -1]

\* strings of the program, as sequences of characters
BTC == <<"B", "T", "C">>
ETH == <<"E", "T", "H">>
NVDA == <<"N", "V", "D", "A">>
SOL == <<"S", "O", "L">>
DOGE == <<"D", "O", "G", "E">>
Red == <<"r", "e", "d">>

RECURSIVE Pow10(_)
Pow10(n) == IF n = 0 THEN 1 ELSE 10 * Pow10(n - 1)

RECURSIVE Dec(_, _)
\* the decimal m / 10^e in normal form (no trailing zero after the point)
Dec(m, e) == IF e > 0 /\ m % 10 = 0 THEN Dec(m \div 10, e - 1) ELSE [m |-> m, e |-> e]

IsPrefix(s, t) == Len(s) <= Len(t) /\ SubSeq(t, 1, Len(s)) = s

----------------------------------------------------------------------------
(* useUniverseStore *)

SeedPlanets ==
    << [ticker |-> BTC,  price |-> Dec(65000, 0), change |-> Dec(52, 1),  pos |-> <<0, 0, 0>>,    color |-> Undefined],
       [ticker |-> ETH,  price |-> Dec(3500, 0),  change |-> Dec(21, 1),  pos |-> <<5, 2, -5>>,   color |-> Undefined],
       [ticker |-> NVDA, price |-> Dec(950, 0),   change |-> Dec(125, 1), pos |-> <<-5, -2, -5>>, color |-> Undefined] >>

InitStore ==
    /\ modality = "PROMETHEUS"
    /\ selectedTicker = Null
    /\ hoveredTicker = Null
    /\ cameraFocus = <<0, 0, 0>>
    /\ isFocusMode = FALSE
    /\ universeItems = SeedPlanets

\* state.universeItems.find(p => p.ticker === ticker)
FindPlanet(items, ticker) == \E i \in 1..Len(items) : items[i].ticker = ticker

\* JavaScript truthiness of a string | null
Truthy(v) == v # Null /\ v # Undefined /\ v # <<>>

setModality(m) ==
    /\ modality' = m
    /\ UNCHANGED <<selectedTicker, hoveredTicker, cameraFocus, isFocusMode, universeItems>>

setSelectedTicker(t) ==
    /\ selectedTicker' = t
    /\ isFocusMode' = Truthy(t)
    /\ UNCHANGED <<modality, hoveredTicker, cameraFocus, universeItems>>

setHoveredTicker(t) ==
    /\ hoveredTicker' = t
    /\ UNCHANGED <<modality, selectedTicker, cameraFocus, isFocusMode, universeItems>>

setCameraFocus(p) ==
    /\ cameraFocus' = p
    /\ UNCHANGED <<modality, selectedTicker, hoveredTicker, isFocusMode, universeItems>>

exitFocusMode ==
    /\ selectedTicker' = Null
    /\ isFocusMode' = FALSE
    /\ cameraFocus' = <<0, 0, 0>>
    /\ UNCHANGED <<modality, hoveredTicker, universeItems>>

\* buggy variants of SpawnItems, used to test the claims' formulas
SpawnItemsNoGuard(items, ticker, price, change, color, pos) ==
    Append(items, [ticker |-> ticker, price |-> price, change |-> change, pos |-> pos, color |-> color])

SpawnItemsUpsert(items, ticker, price, change, color, pos) ==
    IF FindPlanet(items, ticker)
    THEN [i \in 1..Len(items) |->
            IF items[i].ticker = ticker
            THEN [items[i] EXCEPT !.price = price, !.change = change]
            ELSE items[i]]
    ELSE Append(items, [ticker |-> ticker, price |-> price, change |-> change, pos |-> pos, color |-> color])

SpawnItemsPrepend(items, ticker, price, change, color, pos) ==
    IF FindPlanet(items, ticker) THEN items
    ELSE <<[ticker |-> ticker, price |-> price, change |-> change, pos |-> pos, color |-> color]>> \o items

\* the list spawnPlanet returns; pos is the outcome of the three Math.random() draws
SpawnItems(items, ticker, price, change, color, pos) ==
    IF FindPlanet(items, ticker) THEN items
    ELSE Append(items, [ticker |-> ticker, price |-> price, change |-> change, pos |-> pos, color |-> color])

\* r() = (Math.random() - 0.5) * 20 lies in [-10, 10); a few of its outcomes
RandomPositions == { <<-10, 0, 9>>, <<5, 2, -5>> }

spawnPlanet(ticker, price, change, color) ==
    /\ \E pos \in RandomPositions :
          universeItems' = SpawnItems(universeItems, ticker, price, change, color, pos)
    /\ UNCHANGED <<modality, selectedTicker, hoveredTicker, cameraFocus, isFocusMode>>

----------------------------------------------------------------------------
(* useNeuroState; intensity, focus and glitchFactor are decimals *)

Moods == {"CALM", "ANALYSING", "ALERT", "CRITICAL"}

moodColors(m) ==
    CASE m = "CALM"      -> "hsla(180, 50%, 10%, 1)"
      [] m = "ANALYSING" -> "hsla(210, 60%, 15%, 1)"
      [] m = "ALERT"     -> "hsla(35, 80%, 15%, 1)"
      [] m = "CRITICAL"  -> "hsla(0, 90%, 15%, 1)"

InitNeuro ==
    /\ mood = "CALM"
    /\ intensity = Dec(2, 1)
    /\ focus = Dec(0, 0)
    /\ glitchFactor = Dec(0, 0)
    /\ atmosphereColor = moodColors("CALM")

\* buggy variant of MoodIntensity: ALERT falls through to the default
MoodIntensityNoAlert(m) == IF m = "CRITICAL" THEN Dec(10, 1) ELSE Dec(3, 1)

\* mood === 'CRITICAL' ? 1.0 : mood === 'ALERT' ? 0.7 : 0.3
MoodIntensity(m) ==
    IF m = "CRITICAL" THEN Dec(10, 1) ELSE IF m = "ALERT" THEN Dec(7, 1) ELSE Dec(3, 1)

setMood(m) ==
    /\ mood' = m
    /\ atmosphereColor' = moodColors(m)
    /\ intensity' = MoodIntensity(m)
    /\ UNCHANGED <<focus, glitchFactor>>

setIntensity(x) ==
    /\ intensity' = x
    /\ UNCHANGED <<mood, focus, glitchFactor, atmosphereColor>>

setFocus(x) ==
    /\ focus' = x
    /\ UNCHANGED <<mood, intensity, glitchFactor, atmosphereColor>>

----------------------------------------------------------------------------
(* setTimeout: pending callbacks and the passing of time (units of 100 ms) *)

MaxPulses == 2
MaxCharts == 1

\* the durations pulseGlitch is called with: its default 500 ms, 800 ms
\* (StaticVoidTerminal) and 1000 ms (UniverseCanvas)
GlitchDurations == {5, 8, 10}

setTimeout(kind, delay, arg) == Append(timers, [kind |-> kind, rem |-> delay, arg |-> arg])

\* the callback the event loop runs next: the oldest timer that is due
NextDue ==
    IF \E i \in 1..Len(timers) : timers[i].rem = 0
    THEN CHOOSE i \in 1..Len(timers) :
            timers[i].rem = 0 /\ \A j \in 1..(i - 1) : timers[j].rem # 0
    ELSE 0

RemoveAt(s, i) == SubSeq(s, 1, i - 1) \o SubSeq(s, i + 1, Len(s))

\* 100 ms pass; a due callback runs before time moves on
Tick ==
    /\ timers # <<>>
    /\ NextDue = 0
    /\ timers' = [i \in 1..Len(timers) |-> [timers[i] EXCEPT !.rem = @ - 1]]
    /\ lastCall' = [op |-> "tick"]
    /\ UNCHANGED <<storeVars, neuroVars, pulses, appVars>>

\* buggy variant of GlitchAfterTimer: the callback leaves the glitch on
GlitchAfterTimerStuck == Dec(1, 0)

\* set({ glitchFactor: 1 }) and, in the timer, set({ glitchFactor: 0 })
GlitchOnPulse == Dec(1, 0)
GlitchAfterTimer == Dec(0, 0)

pulseGlitch(duration) ==
    /\ pulses < MaxPulses
    /\ pulses' = pulses + 1
    /\ glitchFactor' = GlitchOnPulse
    /\ timers' = setTimeout("glitch", duration, Null)
    /\ lastCall' = [op |-> "pulseGlitch", duration |-> duration]
    /\ UNCHANGED <<storeVars, mood, intensity, focus, atmosphereColor, appVars>>

\* () => set({ glitchFactor: 0 })
GlitchTimerFire ==
    /\ NextDue # 0
    /\ timers[NextDue].kind = "glitch"
    /\ glitchFactor' = GlitchAfterTimer
    /\ timers' = RemoveAt(timers, NextDue)
    /\ lastCall' = [op |-> "glitchTimer"]
    /\ UNCHANGED <<storeVars, mood, intensity, focus, atmosphereColor, pulses, appVars>>

----------------------------------------------------------------------------
(* Scanning strings: character classes, String.prototype.trim, parseFloat *)

Digits == {"0", "1", "2", "3", "4", "5", "6", "7", "8", "9"}
UpperCase == <<"A", "B", "C", "D", "E", "F", "G", "H", "I", "J", "K", "L", "M",
               "N", "O", "P", "Q", "R", "S", "T", "U", "V", "W", "X", "Y", "Z">>
LowerCase == <<"a", "b", "c", "d", "e", "f", "g", "h", "i", "j", "k", "l", "m",
               "n", "o", "p", "q", "r", "s", "t", "u", "v", "w", "x", "y", "z">>
Letters == {UpperCase[i] : i \in 1..Len(UpperCase)} \cup {LowerCase[i] : i \in 1..Len(LowerCase)}
\* the classes \s, \w, [\d\.] and [-\d\.] of the regular expressions
SpaceChars == {" ", "\t", "\n"}
WordChars == Letters \cup Digits \cup {"_"}
NumChars == Digits \cup {"."}
SignedNumChars == Digits \cup {".", "-"}

\* the index behind the longest run of characters of class cls that starts at i
RunEnd(s, i, cls) ==
    CHOOSE j \in i..(Len(s) + 1) :
        /\ \A k \in i..(j - 1) : s[k] \in cls
        /\ j = Len(s) + 1 \/ s[j] \notin cls

LitAt(s, i, lit) == i >= 1 /\ i + Len(lit) - 1 <= Len(s) /\ SubSeq(s, i, i + Len(lit) - 1) = lit

ToLower(c) == IF \E i \in 1..Len(UpperCase) : UpperCase[i] = c
              THEN LowerCase[CHOOSE i \in 1..Len(UpperCase) : UpperCase[i] = c]
              ELSE c
LowerStr(s) == [i \in 1..Len(s) |-> ToLower(s[i])]

\* query.trim()
Trim(s) ==
    IF \A k \in 1..Len(s) : s[k] \in SpaceChars THEN <<>>
    ELSE LET a == CHOOSE i \in 1..Len(s) : s[i] \notin SpaceChars /\ \A k \in 1..(i - 1) : s[k] \in SpaceChars
             b == CHOOSE i \in 1..Len(s) : s[i] \notin SpaceChars /\ \A k \in (i + 1)..Len(s) : s[k] \in SpaceChars
         IN SubSeq(s, a, b)

DigitVal(c) == CHOOSE d \in 0..9 : <<"0", "1", "2", "3", "4", "5", "6", "7", "8", "9">>[d + 1] = c

RECURSIVE DigitsVal(_)
DigitsVal(ds) == IF ds = <<>> THEN 0 ELSE 10 * DigitsVal(SubSeq(ds, 1, Len(ds) - 1)) + DigitVal(ds[Len(ds)])

\* parseFloat(s) for s without exponent: the longest prefix [+-]digits[.digits]
\* with a digit in it, or NaN
ParseFloat(s) ==
    LET signed == s # <<>> /\ s[1] \in {"-", "+"}
        i0 == IF signed THEN 2 ELSE 1
        j == RunEnd(s, i0, Digits)
        k == IF j <= Len(s) /\ s[j] = "." THEN RunEnd(s, j + 1, Digits) ELSE j
        int == SubSeq(s, i0, j - 1)
        frac == IF k > j THEN SubSeq(s, j + 1, k - 1) ELSE <<>>
        mag == DigitsVal(int) * Pow10(Len(frac)) + DigitsVal(frac)
    IN IF int = <<>> /\ frac = <<>> THEN NaN
       ELSE Dec(IF signed /\ s[1] = "-" THEN 0 - mag ELSE mag, Len(frac))

----------------------------------------------------------------------------
(* IntelligenceInput (components/dom/IntelligenceInput.tsx) *)

SpawnOpen == <<"[", "S", "P", "A", "W", "N", ":">>
SpawnClose == <<"]">>

\* data.answer.match(/\[SPAWN:\s*(\w+)\s+([\d\.]+)\s+([-\d\.]+)\s*(\w*)\]/) tried
\* at index i.  Neighbouring pieces of the expression match disjoint classes,
\* except the change and the color, where giving back digits of the change to
\* the color never turns a failed match into a match: the greedy scan decides.
SpawnMatchAt(s, i) ==
    LET a == i + Len(SpawnOpen)
        b == RunEnd(s, a, SpaceChars)
        c == RunEnd(s, b, WordChars)
        d == RunEnd(s, c, SpaceChars)
        e == RunEnd(s, d, NumChars)
        f == RunEnd(s, e, SpaceChars)
        g == RunEnd(s, f, SignedNumChars)
        h == RunEnd(s, g, SpaceChars)
        k == RunEnd(s, h, WordChars)
    IN IF LitAt(s, i, SpawnOpen)
       THEN [ok |-> c > b /\ d > c /\ e > d /\ f > e /\ g > f /\ LitAt(s, k, SpawnClose),
             ticker |-> SubSeq(s, b, c - 1),
             price |-> SubSeq(s, d, e - 1),
             change |-> SubSeq(s, f, g - 1),
             color |-> SubSeq(s, h, k - 1)]
       ELSE [ok |-> FALSE, ticker |-> <<>>, price |-> <<>>, change |-> <<>>, color |-> <<>>]

\* the leftmost match, as String.prototype.match returns it
SpawnMatch(s) ==
    IF \E i \in 1..Len(s) : SpawnMatchAt(s, i).ok
    THEN SpawnMatchAt(s, CHOOSE i \in 1..Len(s) :
                            SpawnMatchAt(s, i).ok /\ \A j \in 1..(i - 1) : ~SpawnMatchAt(s, j).ok)
    ELSE SpawnMatchAt(s, 0)

ChartKeywords == { <<"a", "n", "a", "l", "y", "z", "e">>, <<"c", "h", "a", "r", "t">>, <<"p", "r", "i", "c", "e">>, <<"s", "e", "n", "t", "i", "m", "e", "n", "t">> }

\* query.match(/(?:analyze|chart|price|sentiment)\s+([A-Za-z]+)/i) tried at index i
ChartMatchAt(s, i) ==
    \E kw \in ChartKeywords :
        /\ LitAt(LowerStr(s), i, kw)
        /\ LET a == i + Len(kw)
               b == RunEnd(s, a, SpaceChars)
           IN b > a /\ RunEnd(s, b, Letters) > b

\* tickerMatch[1] of the leftmost match, or Null
ChartTicker(s) ==
    IF \E i \in 1..Len(s) : ChartMatchAt(s, i)
    THEN LET i == CHOOSE x \in 1..Len(s) : ChartMatchAt(s, x) /\ \A y \in 1..(x - 1) : ~ChartMatchAt(s, y)
             kw == CHOOSE w \in ChartKeywords : LitAt(LowerStr(s), i, w)
             b == RunEnd(s, i + Len(kw), SpaceChars)
         IN SubSeq(s, b, RunEnd(s, b, Letters) - 1)
    ELSE Null

ErrorPrefix == <<"E", "R", "R", "O", "R", ":", " ", "C", "O", "N", "N", "E", "C", "T", "I", "O", "N", " ", "F", "A", "I", "L", "E", "D", ".", " ", "D", "E", "T", "A", "I", "L", "S", ":", " ">>

\* buggy variant of ErrorResponse: the bare message
ErrorResponseBare(message) == message

\* `ERROR: CONNECTION FAILED. DETAILS: ${err.message || JSON.stringify(err)}`
ErrorResponse(message) == ErrorPrefix \o (IF message # <<>> THEN message ELSE <<"{", "}">>)

InitInput ==
    /\ iiQuery = <<>>
    /\ iiLoading = FALSE
    /\ iiResponse = Null
    /\ iiChartData = Null
    /\ iiPc = "idle"
    /\ iiCharts = <<>>
    /\ iiSubmitted = Null
    /\ iiIssued = <<>>

\* onChange of the input, which is disabled while loading
II_setQuery(q) ==
    /\ ~iiLoading
    /\ iiQuery' = q
    /\ lastCall' = [op |-> "setQuery"]
    /\ UNCHANGED <<iiLoading, iiResponse, iiChartData, iiPc, iiCharts, iiSubmitted, iiIssued, storeVars, neuroVars, timers, pulses, mockMode, restVars, dashVars, chatVars>>

\* buggy variant of SubmitRequests: the POST is made twice
SubmitRequestsTwice(q) ==
    (IF ChartTicker(q) # Null THEN << [method |-> "GET", path |-> "/quant/chart/", ticker |-> ChartTicker(q)] >> ELSE << >>)
        \o << [method |-> "POST", path |-> "/research", ticker |-> Null],
              [method |-> "POST", path |-> "/research", ticker |-> Null] >>

\* the fetch() calls of one handleSubmit, in the order they are made: the chart
\* request when the query names a ticker, then the research request
SubmitRequests(q) ==
    (IF ChartTicker(q) # Null THEN << [method |-> "GET", path |-> "/quant/chart/", ticker |-> ChartTicker(q)] >> ELSE << >>)
        \o << [method |-> "POST", path |-> "/research", ticker |-> Null] >>

\* the tickers of the chart requests among reqs: the fetches left in flight
\* beside the awaited one
IsChartRequest(r) == r.method = "GET"
ChartTickersOf(reqs) ==
    LET cr == SelectSeq(reqs, IsChartRequest) IN [i \in 1..Len(cr) |-> cr[i].ticker]

\* handleSubmit up to its await of fetch(/research); the form cannot be
\* submitted while loading (input and button are disabled)
II_handleSubmit ==
    /\ ~iiLoading
    /\ iiPc = "idle"
    /\ IF Trim(iiQuery) = <<>>
       THEN /\ lastCall' = [op |-> "submit", sent |-> FALSE]
            /\ UNCHANGED <<inputVars, storeVars, neuroVars, timers, pulses, mockMode, restVars, dashVars, chatVars>>
       ELSE /\ iiLoading' = TRUE
            /\ iiResponse' = Null
            /\ iiChartData' = Null
            /\ ChartTicker(iiQuery) # Null => Len(iiCharts) < MaxCharts
            /\ iiCharts' = iiCharts \o ChartTickersOf(SubmitRequests(iiQuery))
            /\ iiPc' = "fetch"
            /\ iiSubmitted' = iiQuery
            /\ iiIssued' = SubmitRequests(iiQuery)
            /\ lastCall' = [op |-> "submit", sent |-> TRUE]
            /\ UNCHANGED <<iiQuery, storeVars, neuroVars, timers, pulses, mockMode, restVars, dashVars, chatVars>>

\* catch (err) { setResponse(...) } finally { setLoading(false) }
II_catch(outcome, message) ==
    /\ iiResponse' = ErrorResponse(message)
    /\ iiLoading' = FALSE
    /\ iiPc' = "idle"
    /\ lastCall' = [op |-> "research", outcome |-> outcome]
    /\ UNCHANGED <<iiQuery, iiChartData, iiCharts, iiSubmitted, iiIssued, storeVars, neuroVars, timers, pulses, mockMode, restVars, dashVars, chatVars>>

\* messages of the errors thrown in the try block
MsgFetch == <<"F", "a", "i", "l", "e", "d", " ", "t", "o", " ", "f", "e", "t", "c", "h">>
MsgSevered == <<"N", "e", "u", "r", "a", "l", " ", "L", "i", "n", "k", " ", "S", "e", "v", "e", "r", "e", "d">>
MsgJson == <<"U", "n", "e", "x", "p", "e", "c", "t", "e", "d", " ", "t", "o", "k", "e", "n">>
MsgType == <<"C", "a", "n", "n", "o", "t", " ", "r", "e", "a", "d", " ", "p", "r", "o", "p", "e", "r", "t", "i", "e", "s", " ", "o", "f", " ", "u", "n", "d", "e", "f", "i", "n", "e", "d">>

\* the fetch of /research settles: it rejects, or resolves with res.ok or not
II_researchResponse ==
    /\ iiPc = "fetch"
    /\ \/ \E message \in {MsgFetch, <<>>} : II_catch("rejected", message)
       \/ II_catch("notOk", MsgSevered)
       \/ /\ iiPc' = "json"
          /\ lastCall' = [op |-> "researchHeaders"]
          /\ UNCHANGED <<iiQuery, iiLoading, iiResponse, iiChartData, iiCharts, iiSubmitted, iiIssued, storeVars, neuroVars, timers, pulses, mockMode, restVars, dashVars, chatVars>>

\* the fields and separators the backend's answers are composed of
TickerFields == { SOL, BTC, <<>> }
PriceFields == { <<"1", ".", "5">>, <<"1", ".", "2", ".", "3">>, <<".">>, <<>>, <<"x">> }
ChangeFields == { <<"-", "2", ".", "5">>, <<"-", "-">>, <<"1", "-", "2">>, <<>> }
ColorFields == { <<>>, Red }
Answers ==
    { SpawnOpen \o <<" ">> \o t \o <<" ">> \o p \o <<" ">> \o c \o <<" ">> \o col \o SpawnClose :
        t \in TickerFields, p \in PriceFields, c \in ChangeFields, col \in ColorFields }
    \cup { <<"h", "e", "l", "l", "o">>,
           <<"o", "k", " ", "[", "S", "P", "A", "W", "N", ":", "S", "O", "L", " ", "1", "5", "0", " ", "3", "]", ".">>,
           <<"[", "S", "P", "A", "W", "N", ":", " ", "S", "O", "L", " ", "1", "5", "0", " ", "3">>,
           <<"[", "S", "P", "A", "W", "N", " ", "S", "O", "L", " ", "1", "5", "0", " ", "3", "]">> }

\* await res.json() settles: the body does not parse, or data has an answer,
\* or data has none (data.answer is undefined and .match throws)
II_researchBody ==
    /\ iiPc = "json"
    /\ \/ II_catch("parseError", MsgJson)
       \/ II_catch("noAnswer", MsgType)
       \/ \E answer \in Answers :
            LET sm == SpawnMatch(answer) IN
            /\ iiResponse' = answer
            /\ IF sm.ok
               THEN /\ spawnPlanet(sm.ticker, ParseFloat(sm.price), ParseFloat(sm.change), sm.color)
                    /\ lastCall' = [op |-> "research", outcome |-> "answer", answer |-> answer,
                                    spawned |-> TRUE, ticker |-> sm.ticker,
                                    price |-> ParseFloat(sm.price), change |-> ParseFloat(sm.change),
                                    color |-> sm.color]
               ELSE /\ UNCHANGED storeVars
                    /\ lastCall' = [op |-> "research", outcome |-> "answer", answer |-> answer,
                                    spawned |-> FALSE]
            /\ iiLoading' = FALSE
            /\ iiPc' = "idle"
            /\ UNCHANGED <<iiQuery, iiChartData, iiCharts, iiSubmitted, iiIssued, neuroVars, timers, pulses, mockMode, restVars, dashVars, chatVars>>

\* a fetch of /quant/chart/:ticker settles: data.data is truthy and the chart is
\* set, or it is not, or the fetch or res.json() rejects and the error is logged
II_chartSettles ==
    \E i \in 1..Len(iiCharts) :
        /\ iiCharts' = RemoveAt(iiCharts, i)
        /\ \/ iiChartData' = iiCharts[i]
           \/ UNCHANGED iiChartData
        /\ lastCall' = [op |-> "chart"]
        /\ UNCHANGED <<iiQuery, iiLoading, iiResponse, iiPc, iiSubmitted, iiIssued, storeVars, neuroVars, timers, pulses, mockMode, restVars, dashVars, chatVars>>

----------------------------------------------------------------------------
(* EvolvedRealityEngine (app/page.tsx): the dashboard poll *)

MaxPolls == 2

\* libs/mock-data.ts, reduced to the fields fetchAll reads: today.decisions_made,
\* raw_intelligence.research.length, logs
MOCK_METRICS == [src |-> "mock", hasToday |-> TRUE, decisions_made |-> 128,
                 hasResearch |-> TRUE, researchLength |-> 2]
MOCK_LOGS == [src |-> "mock", hasLogs |-> TRUE,
              logs |-> <<"[SYSTEM] Neural Link Established...",
                         "[INFO] Quant module synced with Binance",
                         "[INFO] Risk parameters optimized for Volatility",
                         "[SUCCESS] Mock Mode Engaged: Reality Synthesized">>]
MOCK_PORTFOLIO == [src |-> "mock", balance_usd |-> 142500]

\* JSON objects the backend may answer with; no schema is enforced, so a body
\* may lack the fields the page reads
LiveMetrics == { [src |-> "live", hasToday |-> TRUE, decisions_made |-> 3,
                  hasResearch |-> TRUE, researchLength |-> 1],
                 [src |-> "live", hasToday |-> FALSE, decisions_made |-> 0,
                  hasResearch |-> FALSE, researchLength |-> 0] }
LiveLogs == { [src |-> "live", hasLogs |-> TRUE, logs |-> <<"[LIVE] tick">>],
              [src |-> "live", hasLogs |-> FALSE, logs |-> <<>>] }
LivePortfolio == { [src |-> "live", balance_usd |-> 10] }

NoValue == [src |-> "null"]

Endpoints == <<"/metrics/dashboard", "/logs", "/portfolio">>
Fallback(k) == <<MOCK_METRICS, MOCK_LOGS, MOCK_PORTFOLIO>>[k]
LiveBodies(k) == <<LiveMetrics, LiveLogs, LivePortfolio>>[k]

FetchFailures == {"rejected", "notOk", "parseError"}

\* buggy variant of SafeFetch: a failure yields an empty object
EmptyObject == [src |-> "empty", hasToday |-> FALSE, decisions_made |-> 0, hasResearch |-> FALSE,
                researchLength |-> 0, hasLogs |-> FALSE, logs |-> <<>>, balance_usd |-> 0]
SafeFetchNoFallback(outcome, body, fallback) == IF outcome = "ok" THEN body ELSE EmptyObject

\* what safeFetch(endpoint, fallback) returns: the fallback in mock mode, when
\* fetch rejects, when !res.ok and when res.json() rejects, else the body
SafeFetch(outcome, body, fallback) == IF outcome = "ok" THEN body ELSE fallback

\* (mData.today?.decisions_made || 0) * 5 + (mData.raw_intelligence?.research?.length || 0) * 10
EvolutionLevel(mData) ==
    (IF mData.hasToday THEN mData.decisions_made ELSE 0) * 5
        + (IF mData.hasResearch THEN mData.researchLength ELSE 0) * 10

\* lData.logs || []
LogsOf(lData) == IF lData.hasLogs THEN lData.logs ELSE <<>>

InitDash ==
    /\ metrics = NoValue
    /\ portfolio = NoValue
    /\ logs = <<>>
    /\ loading = TRUE
    /\ connected = FALSE
    /\ evolutionLevel = 0
    /\ pageTicker = "BTC"
    /\ mounted = FALSE
    /\ interval = FALSE
    /\ polls = <<>>
    /\ pollsStarted = 0

\* fetchAll() up to its first await: a new call in flight, waiting for endpoint 1
StartPoll(ps) == Append(ps, [id |-> pollsStarted + 1, stage |-> 1, data |-> <<>>, failed |-> {}])

\* the useEffect body: fetchAll(); setInterval(fetchAll, 3000).  The requests
\* take any time, so the interval is a callback that may run whenever it is set
RunEffect ==
    /\ pollsStarted < MaxPolls
    /\ polls' = StartPoll(polls)
    /\ pollsStarted' = pollsStarted + 1
    /\ interval' = TRUE

\* the first render's effect
Dash_mount ==
    /\ ~mounted
    /\ mounted' = TRUE
    /\ RunEffect
    /\ lastCall' = [op |-> "mount"]
    /\ UNCHANGED <<storeVars, neuroVars, timers, pulses, inputVars, mockMode, restVars, chatVars,
                   metrics, logs, portfolio, loading, connected, evolutionLevel, pageTicker>>

PageTickers == {"BTC", "ETH"}

\* onClick={() => setSelectedTicker(t)}: with a new ticker the effect's cleanup
\* clears the interval and the effect runs again
Dash_setSelectedTicker(t) ==
    /\ mounted
    /\ t # pageTicker
    /\ pageTicker' = t
    /\ RunEffect
    /\ lastCall' = [op |-> "selectTicker"]
    /\ UNCHANGED <<storeVars, neuroVars, timers, pulses, inputVars, mockMode, restVars, chatVars,
                   metrics, logs, portfolio, loading, connected, evolutionLevel, mounted>>

\* the interval fires: fetchAll() again
Dash_intervalFires ==
    /\ interval
    /\ pollsStarted < MaxPolls
    /\ polls' = StartPoll(polls)
    /\ pollsStarted' = pollsStarted + 1
    /\ lastCall' = [op |-> "interval"]
    /\ UNCHANGED <<storeVars, neuroVars, timers, pulses, inputVars, mockMode, restVars, chatVars, interval,
                   metrics, logs, portfolio, loading, connected, evolutionLevel, pageTicker, mounted>>

\* the outcomes of one safeFetch: no request in mock mode, else the request
\* fails in one of three ways or a body arrives
FetchOutcomes == IF mockMode THEN {"mockMode"} ELSE FetchFailures \cup {"ok"}

\* one await of fetchAll returns: safeFetch of the poll's current endpoint has
\* settled; behind the third one fetchAll sets the state
Dash_safeFetch ==
    \E i \in 1..Len(polls) :
    \E outcome \in FetchOutcomes :
    \E body \in (IF outcome = "ok" THEN LiveBodies(polls[i].stage) ELSE {NoValue}) :
        LET k == polls[i].stage
            value == SafeFetch(outcome, body, Fallback(k))
            data == Append(polls[i].data, value)
            failed == IF outcome = "ok" THEN polls[i].failed ELSE polls[i].failed \cup {Endpoints[k]}
        IN
        /\ lastCall' = [op |-> "safeFetch", poll |-> polls[i].id, endpoint |-> Endpoints[k],
                        ok |-> (outcome = "ok")]
        /\ IF k < Len(Endpoints)
           THEN /\ polls' = [polls EXCEPT ![i] = [@ EXCEPT !.stage = k + 1, !.data = data, !.failed = failed]]
                /\ UNCHANGED <<metrics, logs, portfolio, loading, connected, evolutionLevel>>
           ELSE /\ polls' = RemoveAt(polls, i)
                /\ metrics' = data[1]
                /\ logs' = LogsOf(data[2])
                /\ portfolio' = data[3]
                /\ evolutionLevel' = EvolutionLevel(data[1])
                /\ connected' = TRUE
                /\ loading' = FALSE
        /\ UNCHANGED <<storeVars, neuroVars, pulses, inputVars, mockMode, restVars, chatVars, timers,
                       pageTicker, mounted, interval, pollsStarted>>

----------------------------------------------------------------------------
(* EvolvedRealityEngine (app/page.tsx): handleChat *)

MaxChats == 2

\* setTimeout(..., 600), in units of 100 ms
ChatDelay == 6

\* the two mockResponses tables of handleChat: the mock-mode pre-check's and
\* the catch block's
PrecheckResponses ==
    << <<"S", "i", "m", "u", "l", "a", "t", "i", "o", "n", " ", "M", "a", "t", "r", "i", "x", " ", 
          "A", "c", "t", "i", "v", "e", ".", " ", "B", "a", "c", "k", "e", "n", "d", " ", "u", "n", 
          "r", "e", "a", "c", "h", "a", "b", "l", "e", " ", "i", "n", " ", "t", "h", "i", "s", " ", 
          "d", "i", "m", "e", "n", "s", "i", "o", "n", ".">>,
       <<"R", "e", "v", "i", "e", "w", "i", "n", "g", " ", "l", "o", "c", "a", "l", " ", "p", "r", 
          "o", "b", "a", "b", "i", "l", "i", "t", "y", " ", "c", "l", "o", "u", "d", "s", ".", ".", 
          ".", " ", "B", "u", "l", "l", "i", "s", "h", " ", "d", "i", "v", "e", "r", "g", "e", "n", 
          "c", "e", " ", "d", "e", "t", "e", "c", "t", "e", "d", ".">>,
       <<"N", "e", "u", "r", "a", "l", " ", "U", "p", "l", "i", "n", "k", " ", "O", "f", "f", "l", 
          "i", "n", "e", ".", " ", "U", "s", "i", "n", "g", " ", "h", "e", "u", "r", "i", "s", "t", 
          "i", "c", " ", "l", "o", "g", "i", "c", " ", "f", "o", "r", " ", "y", "o", "u", "r", " ", 
          "q", "u", "e", "r", "y", ".">>,
       <<"S", "y", "s", "t", "e", "m", " ", "r", "u", "n", "n", "i", "n", "g", " ", "i", "n", " ", 
          "A", "u", "t", "o", "n", "o", "m", "o", "u", "s", " ", "M", "o", "c", "k", " ", "M", "o", 
          "d", "e", ".", " ", "A", "n", "a", "l", "y", "s", "i", "s", ":", " ", "S", "t", "a", "b", 
          "l", "e", ".">> >>
CatchResponses ==
    << <<"A", "n", "a", "l", "y", "s", "i", "s", " ", "c", "o", "n", "f", "i", "r", "m", "s", " ", 
          "l", "o", "c", "a", "l", "i", "z", "e", "d", " ", "v", "o", "l", "a", "t", "i", "l", "i", 
          "t", "y", ".", " ", "R", "e", "c", "o", "m", "m", "e", "n", "d", " ", "h", "o", "l", "d", 
          "i", "n", "g", " ", "p", "a", "t", "t", "e", "r", "n", ".">>,
       <<"Q", "u", "a", "n", "t", "u", "m", " ", "s", "e", "n", "s", "o", "r", "s", " ", "i", "n", 
          "d", "i", "c", "a", "t", "e", " ", "a", "c", "c", "u", "m", "u", "l", "a", "t", "i", "o", 
          "n", " ", "i", "n", " ", "t", "h", "i", "s", " ", "d", "i", "m", "e", "n", "s", "i", "o", 
          "n", ".">>,
       <<"M", "u", "l", "t", "i", "v", "e", "r", "s", "a", "l", " ", "p", "r", "o", "b", "a", "b", 
          "i", "l", "i", "t", "y", " ", "s", "u", "g", "g", "e", "s", "t", "s", " ", "b", "u", "l", 
          "l", "i", "s", "h", " ", "d", "i", "v", "e", "r", "g", "e", "n", "c", "e", ".">>,
       <<"E", "n", "t", "r", "o", "p", "y", " ", "l", "e", "v", "e", "l", "s", " ", "s", "t", "a", 
          "b", "i", "l", "i", "z", "i", "n", "g", ".", " ", "S", "y", "s", "t", "e", "m", " ", "n", 
          "o", "m", "i", "n", "a", "l", ".">> >>

\* Math.floor(Math.random() * mockResponses.length): two of its four outcomes
RandomIndexes == {1, 4}

SimulationPrefix == <<"[", "S", "I", "M", "U", "L", "A", "T", "I", "O", "N", "]", " ">>

\* buggy variant of SimulationText: the bare mock
SimulationTextBare(randomResponse) == randomResponse

\* `[SIMULATION] ${randomResponse}`
SimulationText(randomResponse) == SimulationPrefix \o randomResponse

InitChat ==
    /\ chatInput = <<>>
    /\ chatHistory = <<>>
    /\ chats = <<>>
    /\ chatsSent = 0

\* onChange of the chat input
Chat_setInput(text) ==
    /\ chatInput' = text
    /\ lastCall' = [op |-> "setChatInput"]
    /\ UNCHANGED <<storeVars, neuroVars, timers, pulses, inputVars, mockMode, restVars, dashVars,
                   chatHistory, chats, chatsSent>>

\* the entry answers message `re` (a label of the model, not a field of the code)
Entry(role, text, re) == [role |-> role, text |-> text, re |-> re]

\* the setTimeout callback of the mock reply
MockReplyTimer(text, re) == [kind |-> "chat", rem |-> ChatDelay, arg |-> Entry("engine", text, re)]

\* handleChat up to its return (mock mode) or its await of fetch(/chat)
Chat_handleChat ==
    IF Trim(chatInput) = <<>>
    THEN /\ lastCall' = [op |-> "handleChat", sent |-> FALSE]
         /\ UNCHANGED <<storeVars, neuroVars, timers, pulses, inputVars, mockMode, restVars, dashVars, chatVars>>
    ELSE /\ chatsSent < MaxChats
         /\ chatsSent' = chatsSent + 1
         /\ chatInput' = <<>>
         /\ chatHistory' = Append(chatHistory, Entry("user", chatInput, chatsSent + 1))
         /\ lastCall' = [op |-> "handleChat", sent |-> TRUE, text |-> chatInput]
         /\ IF mockMode
            THEN /\ \E k \in RandomIndexes :
                      timers' = Append(timers, MockReplyTimer(SimulationText(PrecheckResponses[k]), chatsSent + 1))
                 /\ UNCHANGED chats
            ELSE /\ chats' = Append(chats, [re |-> chatsSent + 1, pc |-> "fetch"])
                 /\ UNCHANGED timers
         /\ UNCHANGED <<storeVars, neuroVars, pulses, inputVars, mockMode, restVars, dashVars>>

\* the catch block: a mock reply after 600 ms
Chat_catch(i, outcome) ==
    /\ \E k \in RandomIndexes :
          timers' = Append(timers, MockReplyTimer(SimulationText(CatchResponses[k]), chats[i].re))
    /\ chats' = RemoveAt(chats, i)
    /\ lastCall' = [op |-> "chatFailed", outcome |-> outcome, re |-> chats[i].re]
    /\ UNCHANGED <<storeVars, neuroVars, pulses, inputVars, mockMode, restVars, dashVars,
                   chatInput, chatHistory, chatsSent>>

\* the fetch of /chat settles: it rejects, or resolves with res.ok or not
Chat_response ==
    \E i \in 1..Len(chats) :
        /\ chats[i].pc = "fetch"
        /\ \/ Chat_catch(i, "rejected")
           \/ Chat_catch(i, "notOk")
           \/ /\ chats' = [chats EXCEPT ![i].pc = "json"]
              /\ lastCall' = [op |-> "chatHeaders"]
              /\ UNCHANGED <<storeVars, neuroVars, timers, pulses, inputVars, mockMode, restVars, dashVars,
                             chatInput, chatHistory, chatsSent>>

\* data.response of the bodies the backend may answer with
ChatResponses == { <<"B", "u", "y", ".">>, Undefined }

\* await res.json() settles: the body does not parse, or the reply is appended
Chat_body ==
    \E i \in 1..Len(chats) :
        /\ chats[i].pc = "json"
        /\ \/ Chat_catch(i, "parseError")
           \/ \E r \in ChatResponses :
                /\ chatHistory' = Append(chatHistory, Entry("engine", r, chats[i].re))
                /\ chats' = RemoveAt(chats, i)
                /\ lastCall' = [op |-> "chatReply", response |-> r, re |-> chats[i].re]
                /\ UNCHANGED <<storeVars, neuroVars, timers, pulses, inputVars, mockMode, restVars, dashVars,
                               chatInput, chatsSent>>

\* () => setChatHistory(prev => [...prev, { role: 'engine', text: `[SIMULATION] ...` }])
ChatTimerFire ==
    /\ NextDue # 0
    /\ timers[NextDue].kind = "chat"
    /\ chatHistory' = Append(chatHistory, timers[NextDue].arg)
    /\ timers' = RemoveAt(timers, NextDue)
    /\ lastCall' = [op |-> "chatTimer", re |-> timers[NextDue].arg.re]
    /\ UNCHANGED <<storeVars, neuroVars, pulses, inputVars, mockMode, restVars, dashVars,
                   chatInput, chats, chatsSent>>

----------------------------------------------------------------------------
(* UniverseCanvas (widgets/universe/UniverseCanvas.tsx), StaticVoidTerminal
   (features/terminal/StaticVoidTerminal.tsx) and ProceduralAudioEngine
   (shared/audio/ProceduralAudioEngine.tsx), which the canvas mounts *)

\* sums and integer multiples of decimals
DecAdd(a, b) ==
    LET e == IF a.e >= b.e THEN a.e ELSE b.e
    IN Dec(a.m * Pow10(e - a.e) + b.m * Pow10(e - b.e), e)
DecTimes(a, k) == Dec(a.m * k, a.e)

\* setTimeout delays of the canvas and the terminal, in units of 100 ms
TransitionDelay == 4
PulseOffDelay == 12
ExitDelay == 3
\* pulseGlitch(1000) and pulseGlitch(800)
TransitionGlitch == 10
ExitGlitch == 8

\* modality === 'PROMETHEUS' ? 'VOID' : 'PROMETHEUS'
ToggleTarget(m) == IF m = "PROMETHEUS" THEN "VOID" ELSE "PROMETHEUS"

\* p.price.toFixed(2): the decimal rounded to two digits after the point and
\* written with exactly two, or NaN
ToFixed2(x) ==
    IF x = NaN THEN NaN
    ELSE IF x.e <= 2 THEN [m |-> x.m * Pow10(2 - x.e), e |-> 2]
    ELSE LET d == Pow10(x.e - 2)
             a == IF x.m >= 0 THEN x.m ELSE 0 - x.m
             r == (2 * a + d) \div (2 * d)
         IN [m |-> IF x.m >= 0 THEN r ELSE 0 - r, e |-> 2]

\* the initialLogs of the terminal's effect: six fixed lines and one line per planet
VoidBanner ==
    << ">> STATIC-VOID KERNEL v4.0.0 LOADED",
       ">> SYSTEM STATUS: STABLE",
       ">> LATENCY: 0.001ms",
       ">> PROTOCOL: BRUTALIST_EFFICIENCY_ACTIVE",
       ">> TYPE \"exit\" TO RESTORE HYPER-REALITY",
       "----------------------------------------" >>
InitialLogs(items) ==
    [i \in 1..Len(VoidBanner) |-> [kind |-> "line", text |-> VoidBanner[i]]]
        \o [i \in 1..Len(items) |->
                [kind |-> "data", ticker |-> items[i].ticker,
                 price |-> ToFixed2(items[i].price), change |-> items[i].change]]

\* the logs after the effect with dependencies [modality, universeItems] has
\* run for a change of the modality from `before` to `after`
LogsAfterModality(before, after, items, current) ==
    IF after # before /\ after = "VOID" THEN InitialLogs(items) ELSE current

InitCanvas ==
    /\ pulseActive = FALSE
    /\ termInput = <<>>
    /\ termLogs = <<>>
    /\ audioReady = FALSE
    /\ gainTarget = NaN
    /\ freqTarget = NaN
    /\ pitchTarget = NaN

\* triggerTransition, from the keydown handler (Ctrl+V, registered on window) or
\* from the COLLAPSE_TO_VOID button, which is rendered in PROMETHEUS only
Canvas_triggerTransition ==
    \E via \in {"key", "click"} :
        /\ via = "click" => modality = "PROMETHEUS"
        /\ pulses < MaxPulses
        /\ pulses' = pulses + 1
        /\ pulseActive' = TRUE
        /\ glitchFactor' = GlitchOnPulse
        /\ timers' = timers \o << [kind |-> "glitch", rem |-> TransitionGlitch, arg |-> Null],
                                  [kind |-> "modality", rem |-> TransitionDelay, arg |-> ToggleTarget(modality), by |-> "triggerTransition"],
                                  [kind |-> "pulseOff", rem |-> PulseOffDelay, arg |-> Null] >>
        /\ lastCall' = [op |-> "triggerTransition", via |-> via, before |-> modality]
        /\ UNCHANGED <<storeVars, mood, intensity, focus, atmosphereColor, pageVars, sceneVars,
                       termInput, termLogs, audioReady, gainTarget, freqTarget, pitchTarget>>

\* () => setModality(...), of triggerTransition and of the terminal's exit
\* command, and the terminal's effect that the new modality triggers
ModalityTimerFire ==
    /\ NextDue # 0
    /\ timers[NextDue].kind = "modality"
    /\ setModality(timers[NextDue].arg)
    /\ termLogs' = LogsAfterModality(modality, timers[NextDue].arg, universeItems, termLogs)
    /\ timers' = RemoveAt(timers, NextDue)
    /\ lastCall' = [op |-> "modalityTimer", mode |-> timers[NextDue].arg, by |-> timers[NextDue].by]
    /\ UNCHANGED <<neuroVars, pulses, pageVars, sceneVars, pulseActive, termInput,
                   audioReady, gainTarget, freqTarget, pitchTarget>>

\* () => setPulseActive(false)
PulseOffTimerFire ==
    /\ NextDue # 0
    /\ timers[NextDue].kind = "pulseOff"
    /\ pulseActive' = FALSE
    /\ timers' = RemoveAt(timers, NextDue)
    /\ lastCall' = [op |-> "pulseOffTimer"]
    /\ UNCHANGED <<storeVars, neuroVars, pulses, pageVars, sceneVars, termInput, termLogs,
                   audioReady, gainTarget, freqTarget, pitchTarget>>

\* onChange of the terminal's input; the terminal renders in VOID only
Term_setInput(text) ==
    /\ modality = "VOID"
    /\ termInput' = text
    /\ lastCall' = [op |-> "setTermInput"]
    /\ UNCHANGED <<storeVars, neuroVars, timers, pulses, pageVars, sceneVars, pulseActive, termLogs,
                   audioReady, gainTarget, freqTarget, pitchTarget>>

CmdExit == <<"e", "x", "i", "t">>
CmdPrometheus == <<"p", "r", "o", "m", "e", "t", "h", "e", "u", "s">>
CmdClear == <<"c", "l", "e", "a", "r">>

\* input.trim().toLowerCase()
Command(input) == LowerStr(Trim(input))

\* buggy variant of RestoresReality: only 'exit' is recognised
RestoresRealityExitOnly(cmd) == cmd = CmdExit

\* cmd === 'exit' || cmd === 'prometheus'
RestoresReality(cmd) == cmd = CmdExit \/ cmd = CmdPrometheus

\* the number of unrecognised commands the log is followed to
MaxUnknown == 1
IsUnrecognized(entry) == entry.kind = "unrecognized"

\* handleCommand, the onSubmit of the terminal's form
Term_handleCommand ==
    LET cmd == Command(termInput) IN
    /\ modality = "VOID"
    /\ termInput' = <<>>
    /\ lastCall' = [op |-> "handleCommand", cmd |-> cmd]
    /\ IF RestoresReality(cmd)
       THEN /\ pulses < MaxPulses
            /\ pulses' = pulses + 1
            /\ glitchFactor' = GlitchOnPulse
            /\ timers' = timers \o << [kind |-> "glitch", rem |-> ExitGlitch, arg |-> Null],
                                      [kind |-> "modality", rem |-> ExitDelay, arg |-> "PROMETHEUS", by |-> "handleCommand"] >>
            /\ UNCHANGED termLogs
       ELSE /\ cmd # CmdClear => Len(SelectSeq(termLogs, IsUnrecognized)) < MaxUnknown
            /\ termLogs' = IF cmd = CmdClear
                           THEN << [kind |-> "line", text |-> ">> CONSOLE CLEARED"] >>
                           ELSE termLogs \o << [kind |-> "echo", input |-> termInput],
                                               [kind |-> "unrecognized", cmd |-> cmd] >>
            /\ UNCHANGED <<pulses, glitchFactor, timers>>
    /\ UNCHANGED <<storeVars, mood, intensity, focus, atmosphereColor, pageVars, sceneVars, pulseActive,
                   audioReady, gainTarget, freqTarget, pitchTarget>>

\* mood === 'CALM' ? 0.05 : mood === 'ANALYSING' ? 0.08 : 0.12
MoodGain(m) == IF m = "CALM" THEN Dec(5, 2) ELSE IF m = "ANALYSING" THEN Dec(8, 2) ELSE Dec(12, 2)

\* 200 + (intensity * 800) and 45 + (intensity * 15)
TargetFreq(x) == DecAdd(Dec(200, 0), DecTimes(x, 800))
TargetPitch(x) == DecAdd(Dec(45, 0), DecTimes(x, 15))

\* the first click on the document: initAudio builds the graph with gain 0,
\* filter 200 Hz and hum 45 Hz, and fades the gain in to 0.05
Audio_click ==
    /\ ~audioReady
    /\ audioReady' = TRUE
    /\ gainTarget' = Dec(5, 2)
    /\ freqTarget' = Dec(200, 0)
    /\ pitchTarget' = Dec(45, 0)
    /\ lastCall' = [op |-> "click"]
    /\ UNCHANGED <<storeVars, neuroVars, timers, pulses, pageVars, sceneVars, pulseActive, termInput, termLogs>>

\* the effect with dependencies [mood, intensity]: it runs after a render in
\* which one of them changed and returns at once while there is no audio graph
AudioEffect ==
    IF audioReady /\ (mood' # mood \/ intensity' # intensity)
    THEN /\ freqTarget' = TargetFreq(intensity')
         /\ pitchTarget' = TargetPitch(intensity')
         /\ gainTarget' = MoodGain(mood')
    ELSE UNCHANGED <<gainTarget, freqTarget, pitchTarget>>

\* setMood and setIntensity of the mood store with the audio engine mounted
Audio_setMood ==
    \E m \in Moods :
        /\ setMood(m)
        /\ AudioEffect
        /\ lastCall' = [op |-> "setMood", mood |-> m]
        /\ UNCHANGED <<storeVars, timers, pulses, pageVars, sceneVars, pulseActive, termInput, termLogs, audioReady>>

AudioIntensities == {Dec(5, 1)}

Audio_setIntensity ==
    \E x \in AudioIntensities :
        /\ setIntensity(x)
        /\ AudioEffect
        /\ lastCall' = [op |-> "setIntensity", intensity |-> x]
        /\ UNCHANGED <<storeVars, timers, pulses, pageVars, sceneVars, pulseActive, termInput, termLogs, audioReady>>

----------------------------------------------------------------------------
(* CameraController (widgets/universe/UniverseCanvas.tsx); coordinates are
   exact decimals *)

MaxFrames == 2

DecSub(a, b) == DecAdd(a, DecTimes(b, -1))
DecMul(a, b) == Dec(a.m * b.m, a.e + b.e)

\* new THREE.Vector3(...targetFocus), for the numbers the store holds
Vec(p) == [i \in 1..3 |-> Dec(p[i], 0)]
VecAdd(p, q) == [i \in 1..3 |-> DecAdd(p[i], q[i])]

\* new THREE.Vector3(0, 2, 5)
FocusOffset == << Dec(0, 0), Dec(2, 0), Dec(5, 0) >>
\* the factors of the two interpolations: 0.05 and 0.02
FocusAlpha == Dec(5, 2)
ParallaxAlpha == Dec(2, 2)

\* buggy variant of Lerp: the step leads away from v
LerpAway(x, v, alpha) == DecSub(x, DecMul(DecSub(v, x), alpha))

\* Vector3.lerp, per coordinate: x += (v - x) * alpha
Lerp(x, v, alpha) == DecAdd(x, DecMul(DecSub(v, x), alpha))

VecLerp(p, q, alpha) == [i \in 1..3 |-> Lerp(p[i], q[i], alpha)]

\* the camera prop of the Canvas and the target of new OrbitControls
InitCamera ==
    /\ cameraPos = << Dec(0, 0), Dec(0, 0), Dec(15, 0) >>
    /\ controlsTarget = << Dec(0, 0), Dec(0, 0), Dec(0, 0) >>
    /\ frames = 0

\* state.mouse of a frame: the pointer in normalised device coordinates
MouseArgs == { << Dec(0, 0), Dec(0, 0) >>, << Dec(1, 0), Dec(-5, 1) >> }

\* the useFrame callback of CameraController
Camera_frame ==
    \E mouse \in MouseArgs :
        /\ frames < MaxFrames
        /\ frames' = frames + 1
        /\ IF isFocusMode
           THEN /\ cameraPos' = VecLerp(cameraPos, VecAdd(Vec(cameraFocus), FocusOffset), FocusAlpha)
                /\ controlsTarget' = VecLerp(controlsTarget, Vec(cameraFocus), FocusAlpha)
                /\ lastCall' = [op |-> "frame", focused |-> TRUE, target |-> cameraFocus]
           ELSE /\ cameraPos' = << Lerp(cameraPos[1], DecTimes(mouse[1], 2), ParallaxAlpha),
                                   Lerp(cameraPos[2], DecTimes(mouse[2], 2), ParallaxAlpha),
                                   cameraPos[3] >>
                /\ UNCHANGED controlsTarget
                /\ lastCall' = [op |-> "frame", focused |-> FALSE, mouse |-> mouse]
        /\ UNCHANGED <<storeVars, neuroVars, timers, pulses, pageVars, canvasVars, shaderVars, intelVars>>

----------------------------------------------------------------------------
(* The universe shader (shared/ui/GlassPanel.tsx) and the UNIVERSES table
   (app/universe/page.tsx) *)

\* the names of the UNIVERSES table; the universe with id i is UniverseNames[i + 1]
UniverseNames ==
    << "BOOLE", "ASSEMBLY", "FORTRAN", "LISP", "COBOL", "ALGOL", "C", "C++",
       "MATLAB", "PYTHON", "JAVA", "JAVASCRIPT", "GO", "RUST", "CUDA", "SQL",
       "SHELL", "POWERSHELL", "PHP", "RUBY", "SCALA", "HASKELL", "ERLANG",
       "KOTLIN", "SWIFT", "JULIA", "NIM", "LUA", "DART", "GROOVY",
       "OBJECTIVE-C", "SCRATCH" >>
UniverseIds == 0..(Len(UniverseNames) - 1)

\* the branches of universeFunction in the order of its if-chain, each named
\* by the comment that labels it; the last one is the final else
BranchLabels ==
    << "BOOLE", "ASSEMBLY", "FORTRAN", "LISP", "COBOL", "ALGOL", "C", "C++",
       "MATLAB", "PYTHON", "JAVA", "JAVASCRIPT", "GO", "RUST", "CUDA", "SQL",
       "SHELL", "POWERSHELL", "PHP", "RUBY", "SCALA", "HASKELL", "ERLANG",
       "KOTLIN", "SWIFT", "JULIA", "NIM", "LUA", "DART", "GROOVY",
       "OBJECTIVE-C", "SCRATCH" >>

\* the branch taken for the id id2 / 2: the first k with id < k + 0.5 in
\* if (id < 1.5) ... else if (id < 31.5) ..., else the 32nd
BranchIndex(id2) ==
    IF \E k \in 1..31 : id2 < 2 * k + 1
    THEN CHOOSE k \in 1..31 : id2 < 2 * k + 1 /\ \A j \in 1..(k - 1) : ~(id2 < 2 * j + 1)
    ELSE 32

\* universeFunction(t, id), as the branch it evaluates and its argument
universeFunction(tArg, id) == [branch |-> BranchLabels[BranchIndex(2 * id)], t |-> tArg, id |-> id]

\* multiUniverseDisplacement(pos, t): the three terms it sums, with their weights
multiUniverseDisplacement(pos, tArg) ==
    << [term |-> universeFunction(DecAdd(tArg, DecMul(pos[1], Dec(5, 1))), uUniverseId), weight |-> Dec(3, 1)],
       [term |-> universeFunction(DecAdd(tArg, DecMul(pos[2], Dec(3, 1))), uUniverseId + 1), weight |-> Dec(1, 1)],
       [term |-> universeFunction(DecAdd(tArg, DecMul(pos[3], Dec(3, 1))), uUniverseId + 2), weight |-> Dec(1, 1)] >>

\* a UniverseShaderMaterial is rendered with universeId = id
Shader_setUniverse ==
    \E id \in UniverseIds :
        /\ uUniverseId' = id
        /\ lastCall' = [op |-> "setUniverse", id |-> id]
        /\ UNCHANGED <<storeVars, neuroVars, timers, pulses, pageVars, canvasVars, cameraVars, intelVars, shaderTerms>>

\* values of uTime + uPhase and vertices the shader runs on
ShaderTimes == { Dec(0, 0), Dec(25, 1) }
ShaderVertices == { << Dec(1, 0), Dec(0, 0), Dec(-1, 0) >> }

\* main() of the vertex shader for one vertex
Shader_vertex ==
    \E tArg \in ShaderTimes, pos \in ShaderVertices :
        /\ uUniverseId \in UniverseIds
        /\ shaderTerms' = multiUniverseDisplacement(pos, tArg)
        /\ lastCall' = [op |-> "vertex", id |-> uUniverseId]
        /\ UNCHANGED <<storeVars, neuroVars, timers, pulses, pageVars, canvasVars, cameraVars, intelVars, uUniverseId>>

----------------------------------------------------------------------------
(* IntelligenceTerminal (components/dom/IntelligenceTerminal.tsx) *)

MaxResearch == 2

\* setTimeout(..., 1000), in units of 100 ms
FallbackDelay == 10

\* useState<{ answer, source } | null>(null): the null response
NoResponse == [answer |-> Null, source |-> Null]

MockAnswerPrefix ==
    <<"S", "i", "m", "u", "l", "a", "t", "e", "d", " ", "A", "n", "a", "l", "y", "s", "i", "s",
    " ", "f", "o", "r", " ", "\"">>
MockAnswerSuffix ==
    <<"\"", ":", "\n", "\n", "T", "h", "e", " ", "s", "y", "s", "t", "e", "m", " ", "h", "a",
    "s", " ", "d", "e", "t", "e", "c", "t", "e", "d", " ", "s", "t", "r", "o", "n", "g", " ",
    "b", "u", "l", "l", "i", "s", "h", " ", "d", "i", "v", "e", "r", "g", "e", "n", "c", "e",
    " ", "i", "n", " ", "t", "h", "e", " ", "u", "n", "d", "e", "r", "l", "y", "i", "n", "g",
    " ", "a", "s", "s", "e", "t", " ", "c", "l", "a", "s", "s", "e", "s", ".", " ", "D", "i",
    "m", "e", "n", "s", "i", "o", "n", "a", "l", " ", "r", "i", "s", "k", " ", "r", "e", "m",
    "a", "i", "n", "s", " ", "l", "o", "w", " ", "c", "o", "m", "f", "o", "r", "t", "a", "b",
    "l", "y", " ", "w", "i", "t", "h", "i", "n", " ", "t", "h", "e", " ", "2", "-", "s", "i",
    "g", "m", "a", " ", "r", "a", "n", "g", "e", ".", " ", "\n", "\n", "R", "e", "c", "o", "m",
    "m", "e", "n", "d", "e", "d", " ", "A", "c", "t", "i", "o", "n", ":", " ", "A", "C", "C",
    "U", "M", "U", "L", "A", "T", "E", " ", "o", "n", " ", "d", "i", "p", "s", ".">>

\* buggy variant of generateMockResearch: the analysis names no query
generateMockResearchAnonymous(query) ==
    [answer |-> MockAnswerPrefix \o MockAnswerSuffix, source |-> <<"S", "y", "n", "t", "h", "e", "t", "i", "c", " ", "C", "o", "r", "t", "e", "x", " ", "v",
       "1">>]

\* libs/mock-data.ts
generateMockResearch(query) ==
    [answer |-> MockAnswerPrefix \o query \o MockAnswerSuffix, source |-> <<"S", "y", "n", "t", "h", "e", "t", "i", "c", " ", "C", "o", "r", "t", "e", "x", " ", "v",
       "1">>]

InitIntel ==
    /\ itQuery = <<>>
    /\ itResponse = NoResponse
    /\ itLoading = FALSE
    /\ itError = Null
    /\ itOpen = FALSE
    /\ itCalls = <<>>
    /\ itSent = 0

\* onClick={() => setIsOpen(!isOpen)}
IT_toggle ==
    /\ itOpen' = ~itOpen
    /\ lastCall' = [op |-> "toggleTerminal"]
    /\ UNCHANGED <<storeVars, neuroVars, timers, pulses, pageVars, canvasVars, cameraVars, shaderVars,
                   itQuery, itResponse, itLoading, itError, itCalls, itSent>>

\* onChange of the input, which is rendered while the window is open and is
\* not disabled while loading
IT_setQuery(q) ==
    /\ itOpen
    /\ itQuery' = q
    /\ lastCall' = [op |-> "setOracleQuery"]
    /\ UNCHANGED <<storeVars, neuroVars, timers, pulses, pageVars, canvasVars, cameraVars, shaderVars,
                   itResponse, itLoading, itError, itOpen, itCalls, itSent>>

\* handleResearch up to its await of fetch(/research); the submit button is
\* disabled while loading, which also blocks the submission by the Enter key
IT_handleResearch ==
    /\ itOpen
    /\ ~itLoading
    /\ IF Trim(itQuery) = <<>>
       THEN /\ lastCall' = [op |-> "handleResearch", sent |-> FALSE]
            /\ UNCHANGED <<itLoading, itError, itResponse, itCalls, itSent, timers>>
       ELSE /\ itSent < MaxResearch
            /\ itSent' = itSent + 1
            /\ itLoading' = TRUE
            /\ itError' = Null
            /\ itResponse' = NoResponse
            /\ itCalls' = Append(itCalls, [id |-> itSent + 1, query |-> itQuery, pc |-> "fetch"])
            /\ lastCall' = [op |-> "handleResearch", sent |-> TRUE, id |-> itSent + 1]
            /\ UNCHANGED timers
    /\ UNCHANGED <<storeVars, neuroVars, pulses, pageVars, canvasVars, cameraVars, shaderVars, itQuery, itOpen>>

\* catch { setTimeout(() => {...}, 1000); return; } finally { setLoading(false) }:
\* the finally block runs on the return of the catch block
IT_catch(i, outcome) ==
    /\ timers' = Append(timers, [kind |-> "fallback", rem |-> FallbackDelay,
                                  arg |-> itCalls[i].query, id |-> itCalls[i].id])
    /\ itLoading' = FALSE
    /\ itCalls' = RemoveAt(itCalls, i)
    /\ lastCall' = [op |-> "researchFailed", outcome |-> outcome, id |-> itCalls[i].id]
    /\ UNCHANGED <<storeVars, neuroVars, pulses, pageVars, canvasVars, cameraVars, shaderVars,
                   itQuery, itResponse, itError, itOpen, itSent>>

\* the fetch of /research settles: it rejects, or resolves with res.ok or not
IT_response ==
    \E i \in 1..Len(itCalls) :
        /\ itCalls[i].pc = "fetch"
        /\ \/ IT_catch(i, "rejected")
           \/ IT_catch(i, "notOk")
           \/ /\ itCalls' = [itCalls EXCEPT ![i].pc = "json"]
              /\ lastCall' = [op |-> "oracleHeaders"]
              /\ UNCHANGED <<storeVars, neuroVars, timers, pulses, pageVars, canvasVars, cameraVars, shaderVars,
                             itQuery, itResponse, itLoading, itError, itOpen, itSent>>

\* the values of the error field of a body: absent, null, or a message
OracleErrors == { Undefined, Null, <<"d", "o", "w", "n">> }

\* the bodies the backend answers with
OracleBodies ==
    { [answer |-> <<"B", "u", "y", ".">>, source |-> <<"p", "e", "r", "p", "l", "e", "x", "i", "t", "y">>,
       error |-> e] : e \in OracleErrors }

\* await res.json() settles: the body does not parse, or if (data.error) throws,
\* or the body is set as the response
IT_body ==
    \E i \in 1..Len(itCalls) :
        /\ itCalls[i].pc = "json"
        /\ \/ IT_catch(i, "parseError")
           \/ \E data \in OracleBodies :
                /\ Truthy(data.error)
                /\ IT_catch(i, "errorField")
           \/ \E data \in OracleBodies :
                /\ ~Truthy(data.error)
                /\ itResponse' = data
                /\ itLoading' = FALSE
                /\ itCalls' = RemoveAt(itCalls, i)
                /\ lastCall' = [op |-> "oracleReply", id |-> itCalls[i].id, error |-> data.error]
                /\ UNCHANGED <<storeVars, neuroVars, timers, pulses, pageVars, canvasVars, cameraVars, shaderVars,
                               itQuery, itError, itOpen, itSent>>

\* () => { setResponse(generateMockResearch(query)); setLoading(false); }
FallbackTimerFire ==
    /\ NextDue # 0
    /\ timers[NextDue].kind = "fallback"
    /\ itResponse' = generateMockResearch(timers[NextDue].arg)
    /\ itLoading' = FALSE
    /\ timers' = RemoveAt(timers, NextDue)
    /\ lastCall' = [op |-> "fallbackTimer", id |-> timers[NextDue].id, query |-> timers[NextDue].arg]
    /\ UNCHANGED <<storeVars, neuroVars, pulses, pageVars, canvasVars, cameraVars, shaderVars,
                   itQuery, itError, itOpen, itCalls, itSent>>

----------------------------------------------------------------------------
(* Specifications *)

InitApp ==
    /\ InitStore
    /\ InitNeuro
    /\ timers = <<>>
    /\ pulses = 0
    /\ InitInput
    /\ InitDash
    /\ InitChat
    /\ InitCanvas
    /\ InitCamera
    /\ uUniverseId = -1
    /\ shaderTerms = <<>>
    /\ InitIntel
    /\ lastCall = [op |-> "init"]

\* the app served from localhost, where API_URL points
Init == InitApp /\ mockMode = FALSE

\* the app served from localhost or from another host
InitAnyHost == InitApp /\ mockMode \in BOOLEAN

\* arguments the planet store's actions are called with
TickerArgs == {BTC, SOL, DOGE}
SelectArgs == {Null, <<>>, BTC, SOL}
HoverArgs == {Null, ETH}
PriceArgs == {Dec(65000, 0), Dec(150, 0)}
ChangeArgs == {Dec(-25, 1)}
ColorArgs == {Undefined, Red}
FocusArgs == {<<0, 0, 0>>, <<5, 2, -5>>}

Store_setModality ==
    \E m \in {"PROMETHEUS", "VOID"} :
        /\ setModality(m)
        /\ lastCall' = [op |-> "setModality", mode |-> m]
        /\ UNCHANGED <<neuroVars, timers, pulses, appVars>>

Store_setSelectedTicker ==
    \E t \in SelectArgs :
        /\ setSelectedTicker(t)
        /\ lastCall' = [op |-> "setSelectedTicker", selected |-> t]
        /\ UNCHANGED <<neuroVars, timers, pulses, appVars>>

Store_setHoveredTicker ==
    \E t \in HoverArgs :
        /\ setHoveredTicker(t)
        /\ lastCall' = [op |-> "setHoveredTicker", hovered |-> t]
        /\ UNCHANGED <<neuroVars, timers, pulses, appVars>>

Store_setCameraFocus ==
    \E p \in FocusArgs :
        /\ setCameraFocus(p)
        /\ lastCall' = [op |-> "setCameraFocus", position |-> p]
        /\ UNCHANGED <<neuroVars, timers, pulses, appVars>>

Store_exitFocusMode ==
    /\ exitFocusMode
    /\ lastCall' = [op |-> "exitFocusMode"]
    /\ UNCHANGED <<neuroVars, timers, pulses, appVars>>

Store_spawnPlanet ==
    \E t \in TickerArgs, p \in PriceArgs, c \in ChangeArgs, col \in ColorArgs :
        /\ spawnPlanet(t, p, c, col)
        /\ lastCall' = [op |-> "spawnPlanet", ticker |-> t, price |-> p, change |-> c, color |-> col]
        /\ UNCHANGED <<neuroVars, timers, pulses, appVars>>

NextStore ==
    \/ Store_setModality
    \/ Store_setSelectedTicker
    \/ Store_setHoveredTicker
    \/ Store_setCameraFocus
    \/ Store_exitFocusMode
    \/ Store_spawnPlanet

SpecStore == Init /\ [][NextStore]_vars

\* buggy variant of PlanetPosition: every planet is focused at the origin
PlanetPositionOrigin(stock) == <<0, 0, 0>>

\* position={stock?.pos || [0, 0, 0]}: an array is truthy
PlanetPosition(stock) == stock.pos

\* handleClick of the planet rendered for universeItems[i]:
\* setSelectedTicker(ticker); setCameraFocus(position). The 3D layer takes no
\* pointer events in VOID
Planet_handleClick ==
    \E i \in 1..Len(universeItems) :
        /\ modality = "PROMETHEUS"
        /\ selectedTicker' = universeItems[i].ticker
        /\ isFocusMode' = Truthy(universeItems[i].ticker)
        /\ cameraFocus' = PlanetPosition(universeItems[i])
        /\ lastCall' = [op |-> "planetClick", planet |-> i]
        /\ UNCHANGED <<modality, hoveredTicker, universeItems, neuroVars, timers, pulses, appVars>>

\* onPointerOver / onPointerOut of a planet: setHovered is state of the
\* component and the store is not written
Planet_hover ==
    \E i \in 1..Len(universeItems), over \in BOOLEAN :
        /\ modality = "PROMETHEUS"
        /\ lastCall' = [op |-> "planetHover", planet |-> i, over |-> over]
        /\ UNCHANGED <<storeVars, neuroVars, timers, pulses, appVars>>

\* the close button of StockDetailPanel, which is rendered in PROMETHEUS and
\* returns null if (!selectedTicker)
Panel_close ==
    /\ modality = "PROMETHEUS"
    /\ Truthy(selectedTicker)
    /\ exitFocusMode
    /\ lastCall' = [op |-> "closePanel"]
    /\ UNCHANGED <<neuroVars, timers, pulses, appVars>>

NextUniverse ==
    \/ Planet_handleClick
    \/ Planet_hover
    \/ Panel_close
    \/ Store_spawnPlanet
    \/ Store_setModality

SpecUniverse == Init /\ [][NextUniverse]_vars

\* arguments the mood store's setIntensity and setFocus are called with: the
\* parameter is any number
ScalarArgs == {Dec(5, 1), Dec(15, 1), Dec(-5, 1)}

Neuro_setMood ==
    \E m \in Moods :
        /\ setMood(m)
        /\ lastCall' = [op |-> "setMood", mood |-> m]
        /\ UNCHANGED <<storeVars, timers, pulses, appVars>>

Neuro_setIntensity ==
    \E x \in ScalarArgs :
        /\ setIntensity(x)
        /\ lastCall' = [op |-> "setIntensity", intensity |-> x]
        /\ UNCHANGED <<storeVars, timers, pulses, appVars>>

Neuro_setFocus ==
    \E x \in ScalarArgs :
        /\ setFocus(x)
        /\ lastCall' = [op |-> "setFocus", focus |-> x]
        /\ UNCHANGED <<storeVars, timers, pulses, appVars>>

Neuro_pulseGlitch == \E d \in GlitchDurations : pulseGlitch(d)

NextNeuro ==
    \/ Neuro_setMood
    \/ Neuro_setIntensity
    \/ Neuro_setFocus
    \/ Neuro_pulseGlitch
    \/ GlitchTimerFire
    \/ Tick

SpecNeuro == Init /\ [][NextNeuro]_vars

\* the event loop runs every due callback and time does not stop
SpecNeuroFair == SpecNeuro /\ WF_vars(GlitchTimerFire) /\ WF_vars(Tick)

\* what the user types into the IntelligenceInput
Queries == { <<" ", " ">>, <<"h", "i">>, <<"C", "h", "a", "r", "t", " ", " ", "N", "V", "D", "A", " ", "n", "o", "w">> }

Input_setQuery == \E q \in Queries : II_setQuery(q)

NextInput ==
    \/ Input_setQuery
    \/ II_handleSubmit
    \/ II_researchResponse
    \/ II_researchBody
    \/ II_chartSettles

SpecInput == Init /\ [][NextInput]_vars

Dash_selectTicker == \E t \in PageTickers : Dash_setSelectedTicker(t)

NextDash ==
    \/ Dash_mount
    \/ Dash_selectTicker
    \/ Dash_intervalFires
    \/ Dash_safeFetch

SpecDash == InitAnyHost /\ [][NextDash]_vars

\* React runs the effect after the first render, every request settles and the
\* event loop runs the interval's callback
SpecDashFair ==
    SpecDash /\ WF_vars(Dash_mount) /\ WF_vars(Dash_safeFetch) /\ WF_vars(Dash_intervalFires)

\* what the user types into the chat box
ChatInputs == { <<" ">>, <<"h", "i">> }

Chat_type == \E text \in ChatInputs : Chat_setInput(text)

NextChat ==
    \/ Chat_type
    \/ Chat_handleChat
    \/ Chat_response
    \/ Chat_body
    \/ ChatTimerFire
    \/ Tick

SpecChat == InitAnyHost /\ [][NextChat]_vars

\* every request settles, the event loop runs due callbacks and time does not stop
SpecChatFair ==
    SpecChat /\ WF_vars(Chat_response) /\ WF_vars(Chat_body) /\ WF_vars(ChatTimerFire) /\ WF_vars(Tick)

\* what the user types into the terminal
TermInputs == { <<" ", "E", "x", "i", "t", " ">>, <<"P", "R", "O", "M", "E", "T", "H", "E", "U", "S">>, <<"c", "l", "e", "a", "r">>, <<"l", "s">> }

Term_type == \E text \in TermInputs : Term_setInput(text)

\* the modality toggle alone
NextToggle ==
    \/ Canvas_triggerTransition
    \/ ModalityTimerFire
    \/ PulseOffTimerFire
    \/ GlitchTimerFire
    \/ Tick

SpecToggle == Init /\ [][NextToggle]_vars

\* the canvas and its terminal
NextVoid ==
    \/ Canvas_triggerTransition
    \/ Term_type
    \/ Term_handleCommand
    \/ ModalityTimerFire
    \/ PulseOffTimerFire
    \/ GlitchTimerFire
    \/ Tick

SpecVoid == Init /\ [][NextVoid]_vars

\* the event loop runs every due callback and time does not stop
SpecVoidFair ==
    SpecVoid /\ WF_vars(ModalityTimerFire) /\ WF_vars(PulseOffTimerFire)
             /\ WF_vars(GlitchTimerFire) /\ WF_vars(Tick)

\* the canvas and its audio engine
NextAudio ==
    \/ Canvas_triggerTransition
    \/ Audio_click
    \/ Audio_setMood
    \/ Audio_setIntensity
    \/ ModalityTimerFire
    \/ PulseOffTimerFire
    \/ GlitchTimerFire
    \/ Tick

SpecAudio == Init /\ [][NextAudio]_vars

\* the camera controller with the store actions it subscribes to
NextCamera ==
    \/ Store_setSelectedTicker
    \/ Store_setCameraFocus
    \/ Store_exitFocusMode
    \/ Camera_frame

SpecCamera == Init /\ [][NextCamera]_vars

NextShader ==
    \/ Shader_setUniverse
    \/ Shader_vertex

SpecShader == Init /\ [][NextShader]_vars

\* what the user types into the IntelligenceTerminal
OracleQueries == { <<" ">>, <<"h", "i">>, <<"b", "t", "c">> }

IT_type == \E q \in OracleQueries : IT_setQuery(q)

NextIntel ==
    \/ IT_toggle
    \/ IT_type
    \/ IT_handleResearch
    \/ IT_response
    \/ IT_body
    \/ FallbackTimerFire
    \/ Tick

SpecIntel == Init /\ [][NextIntel]_vars

\* every request settles, the event loop runs due callbacks and time does not stop
SpecIntelFair ==
    SpecIntel /\ WF_vars(IT_response) /\ WF_vars(IT_body) /\ WF_vars(FallbackTimerFire) /\ WF_vars(Tick)

----------------------------------------------------------------------------
(* Claims about the planet store *)

\* C1: no two entries of universeItems have the same ticker.
C1_TickerUnique ==
    \A i, j \in 1..Len(universeItems) :
        i # j => universeItems[i].ticker # universeItems[j].ticker

\* two planets were spawned and a spawn of a ticker already present was the last call
C1_Witness ==
    /\ Len(universeItems) = Len(SeedPlanets) + 2
    /\ lastCall.op = "spawnPlanet"
    /\ lastCall.ticker = BTC

\* C2: spawnPlanet with a ticker already in universeItems changes nothing of
\* the store, whatever price, change and color are passed.
C2_SpawnExistingNoOp ==
    [][(lastCall'.op = "spawnPlanet" /\ FindPlanet(universeItems, lastCall'.ticker))
          => UNCHANGED storeVars]_vars

\* BTC is spawned again with another price, change and color than the seed's
C2_Witness ==
    /\ lastCall.op = "spawnPlanet"
    /\ lastCall.ticker = BTC
    /\ lastCall.price = Dec(150, 0)
    /\ lastCall.color = Red
    /\ universeItems[1].price = Dec(65000, 0)
    /\ universeItems[1].color = Undefined

\* C3: every store action keeps universeItems as a prefix; spawnPlanet of a new
\* ticker appends exactly one record with the ticker, price, change and color
\* passed; every other action leaves the list unchanged.
C3_AppendOnly ==
    [][/\ IsPrefix(universeItems, universeItems')
       /\ (lastCall'.op = "spawnPlanet" /\ ~FindPlanet(universeItems, lastCall'.ticker))
            => /\ Len(universeItems') = Len(universeItems) + 1
               /\ LET n == universeItems'[Len(universeItems')] IN
                    /\ n.ticker = lastCall'.ticker
                    /\ n.price = lastCall'.price
                    /\ n.change = lastCall'.change
                    /\ n.color = lastCall'.color
       /\ lastCall'.op # "spawnPlanet" => universeItems' = universeItems]_vars

\* a new planet DOGE was appended behind another spawned planet
C3_Witness ==
    /\ lastCall.op = "spawnPlanet"
    /\ lastCall.ticker = DOGE
    /\ Len(universeItems) = Len(SeedPlanets) + 2
    /\ universeItems[Len(universeItems)].ticker = DOGE

\* C24: isFocusMode is true exactly when selectedTicker is not null.
C24_FocusMirrorsSelection == isFocusMode <=> (selectedTicker # Null)

\* C25: in the universe view a selected ticker is the ticker of a planet of
\* universeItems and cameraFocus is that planet's pos; a click on a planet
\* selects it, and closing the panel leaves selectedTicker null, isFocusMode
\* false and cameraFocus at (0, 0, 0).
C25_CameraOnSelectedPlanet ==
    /\ [](selectedTicker # Null =>
            \E i \in 1..Len(universeItems) :
                universeItems[i].ticker = selectedTicker /\ cameraFocus = universeItems[i].pos)
    /\ [][lastCall'.op = "planetClick" =>
            /\ selectedTicker' = universeItems[lastCall'.planet].ticker
            /\ cameraFocus' = universeItems[lastCall'.planet].pos]_vars
    /\ [][lastCall'.op = "closePanel" =>
            selectedTicker' = Null /\ ~isFocusMode' /\ cameraFocus' = <<0, 0, 0>>]_vars

\* a planet spawned through chat at a random position was clicked
C25_Witness ==
    /\ lastCall.op = "planetClick"
    /\ lastCall.planet = 4
    /\ selectedTicker = SOL
    /\ isFocusMode
    /\ cameraFocus = <<-10, 0, 9>>

----------------------------------------------------------------------------
(* Claims about the mood store *)

\* C4: setMood(m) sets mood to m, atmosphereColor to the table colour of m and
\* intensity to 1.0 (CRITICAL), 0.7 (ALERT) or 0.3 (CALM, ANALYSING), whatever
\* the state before; focus and glitchFactor are unchanged.
C4_SetMoodTable ==
    [][lastCall'.op = "setMood" =>
          /\ mood' = lastCall'.mood
          /\ \/ mood' = "CALM" /\ atmosphereColor' = "hsla(180, 50%, 10%, 1)" /\ intensity' = Dec(3, 1)
             \/ mood' = "ANALYSING" /\ atmosphereColor' = "hsla(210, 60%, 15%, 1)" /\ intensity' = Dec(3, 1)
             \/ mood' = "ALERT" /\ atmosphereColor' = "hsla(35, 80%, 15%, 1)" /\ intensity' = Dec(7, 1)
             \/ mood' = "CRITICAL" /\ atmosphereColor' = "hsla(0, 90%, 15%, 1)" /\ intensity' = Dec(1, 0)
          /\ UNCHANGED <<focus, glitchFactor>>]_vars

\* setMood('ALERT') while a glitch pulse is on and focus was set
C4_Witness ==
    /\ lastCall.op = "setMood"
    /\ mood = "ALERT"
    /\ intensity = Dec(7, 1)
    /\ focus = Dec(5, 1)
    /\ glitchFactor = Dec(1, 0)

\* C5: pulseGlitch sets glitchFactor to 1 at once, the timer of the call sets
\* it to 0 when it fires, and once no further pulse is started glitchFactor
\* eventually is 0 and stays 0.
C5_GlitchSelfResets ==
    /\ [][lastCall'.op = "pulseGlitch" => glitchFactor' = Dec(1, 0)]_vars
    /\ [][lastCall'.op = "glitchTimer" => glitchFactor' = Dec(0, 0)]_vars
    /\ <>[](glitchFactor = Dec(0, 0) /\ timers = <<>>)

\* all the pulses were started, the last timer has fired and the glitch is off
C5_Witness ==
    /\ pulses = MaxPulses
    /\ timers = <<>>
    /\ lastCall.op = "glitchTimer"
    /\ glitchFactor = Dec(0, 0)

InUnit(x) == x.m >= 0 /\ x.m <= Pow10(x.e)

\* C6: intensity, focus and glitchFactor are within 0..1 in every reachable
\* state of the mood store.
C6_ScalarsInRange == InUnit(intensity) /\ InUnit(focus) /\ InUnit(glitchFactor)

\* C17: in every reachable state of the mood store, under any sequence of
\* setMood, setIntensity, setFocus and pulseGlitch calls, atmosphereColor and
\* intensity are the values the lookup table assigns to the current mood.
C17_DerivedFromMood ==
    \/ mood = "CALM" /\ atmosphereColor = "hsla(180, 50%, 10%, 1)" /\ intensity = Dec(3, 1)
    \/ mood = "ANALYSING" /\ atmosphereColor = "hsla(210, 60%, 15%, 1)" /\ intensity = Dec(3, 1)
    \/ mood = "ALERT" /\ atmosphereColor = "hsla(35, 80%, 15%, 1)" /\ intensity = Dec(7, 1)
    \/ mood = "CRITICAL" /\ atmosphereColor = "hsla(0, 90%, 15%, 1)" /\ intensity = Dec(1, 0)

----------------------------------------------------------------------------
(* Claims about IntelligenceInput *)

\* a decimal number: digits, optionally followed by a point and digits
IsDecimalNumber(f) ==
    LET j == RunEnd(f, 1, Digits) IN
    /\ j > 1
    /\ \/ j = Len(f) + 1
       \/ f[j] = "." /\ j < Len(f) /\ RunEnd(f, j + 1, Digits) = Len(f) + 1

IsSignedDecimalNumber(f) ==
    \/ IsDecimalNumber(f)
    \/ f # <<>> /\ f[1] = "-" /\ IsDecimalNumber(SubSeq(f, 2, Len(f)))

\* the answer has a token [SPAWN: TICKER PRICE CHANGE COLOR] at index i whose
\* PRICE is a decimal number and whose CHANGE is a signed decimal number
WellFormedTokenAt(s, i) ==
    LET t == SpawnMatchAt(s, i) IN
    t.ok /\ IsDecimalNumber(t.price) /\ IsSignedDecimalNumber(t.change)

\* C7: a spawn is produced exactly when the answer contains a well-formed
\* token, with that token's ticker, numeric price, numeric change and color; a
\* token whose PRICE or CHANGE is not a valid number produces no spawn.
C7_SpawnIffWellFormed ==
    (lastCall.op = "research" /\ lastCall.outcome = "answer") =>
        /\ lastCall.spawned <=> \E i \in 1..Len(lastCall.answer) : WellFormedTokenAt(lastCall.answer, i)
        /\ lastCall.spawned =>
              \E i \in 1..Len(lastCall.answer) :
                  LET t == SpawnMatchAt(lastCall.answer, i) IN
                  /\ WellFormedTokenAt(lastCall.answer, i)
                  /\ lastCall.ticker = t.ticker
                  /\ lastCall.price = ParseFloat(t.price)
                  /\ lastCall.change = ParseFloat(t.change)
                  /\ lastCall.color = t.color

IsResearchRequest(r) == r.method = "POST" /\ r.path = "/research"

\* C11: a submit of a non-blank query makes exactly one POST /research and at
\* most one GET /quant/chart/:ticker, and no later step of the handler makes
\* another request, whether the requests succeed or fail; a submit of an empty
\* or whitespace-only query makes no request and changes no state.
C11_NoRetries ==
    /\ [][(lastCall'.op = "submit" /\ Trim(iiQuery) # <<>>) =>
            /\ Len(SelectSeq(iiIssued', IsResearchRequest)) = 1
            /\ Len(SelectSeq(iiIssued', IsChartRequest)) <= 1
            /\ Len(iiIssued') = Len(SelectSeq(iiIssued', IsResearchRequest)) + Len(SelectSeq(iiIssued', IsChartRequest))
            /\ iiPc = "idle" /\ iiPc' = "fetch"
            /\ Len(iiCharts') = Len(iiCharts) + Len(SelectSeq(iiIssued', IsChartRequest))]_vars
    /\ [][(lastCall'.op = "submit" /\ Trim(iiQuery) = <<>>) =>
            UNCHANGED <<inputVars, storeVars, neuroVars, timers>>]_vars
    /\ [][lastCall'.op # "submit" =>
            /\ iiIssued' = iiIssued
            /\ Len(iiCharts') <= Len(iiCharts)
            /\ iiPc' = "fetch" => iiPc = "fetch"]_vars

\* the research request of a query that names a ticker was rejected: the
\* handler has ended with the one POST and the one GET of its submit
C11_Witness ==
    /\ lastCall.op = "research"
    /\ lastCall.outcome = "rejected"
    /\ iiPc = "idle"
    /\ Len(iiIssued) = 2
    /\ ChartTicker(iiSubmitted) = NVDA

\* C8: when POST /research rejects, returns a non-OK status or its body cannot
\* be parsed, the response shown starts with 'ERROR: CONNECTION FAILED',
\* universeItems is unchanged and loading is false when the handler ends.
C8_FailureShown ==
    [][(lastCall'.op = "research" /\ lastCall'.outcome \in {"rejected", "notOk", "parseError"}) =>
          /\ IsPrefix(<<"E", "R", "R", "O", "R", ":", " ", "C", "O", "N", "N", "E", "C", "T", "I", "O", "N", " ", "F", "A", "I", "L", "E", "D">>, iiResponse')
          /\ universeItems' = universeItems
          /\ iiLoading' = FALSE
          /\ iiPc' = "idle"]_vars

\* the body of a later request did not parse, after an earlier answer had
\* spawned a planet
C8_Witness ==
    /\ lastCall.op = "research"
    /\ lastCall.outcome = "parseError"
    /\ Len(universeItems) = Len(SeedPlanets) + 1
    /\ IsPrefix(ErrorPrefix, iiResponse)
    /\ ~iiLoading

\* C20: whenever chartData is non-null it was fetched for the ticker of the
\* most recently submitted query; a chart response for an earlier query that
\* arrives after a later submit has cleared chartData never becomes visible.
C20_ChartOfLatestQuery ==
    iiChartData # Null => iiChartData = ChartTicker(iiSubmitted)

----------------------------------------------------------------------------
(* Claims about the canvas, its terminal and its audio engine *)

ModalityTimerPending == \E i \in 1..Len(timers) : timers[i].kind = "modality"

\* C12: starting from PROMETHEUS, once all pending 400 ms transition timers
\* have fired, the modality differs from PROMETHEUS exactly when the number of
\* Ctrl+V presses and COLLAPSE_TO_VOID clicks so far is odd, also when presses
\* follow one another in less than 400 ms.
C12_ToggleParity ==
    ~ModalityTimerPending => (modality # "PROMETHEUS" <=> pulses % 2 = 1)

\* C13: in VOID the command 'exit' or 'prometheus', compared in lower case
\* after trimming, schedules a 300 ms timer and once that timer fires the
\* modality is PROMETHEUS; every other command schedules nothing; no command
\* changes the modality itself.
C13_ExitRestoresReality ==
    /\ [][lastCall'.op = "handleCommand" =>
            LET cmd == LowerStr(Trim(termInput)) IN
            /\ modality = "VOID" /\ modality' = "VOID"
            /\ cmd \in {<<"e", "x", "i", "t">>, <<"p", "r", "o", "m", "e", "t", "h", "e", "u", "s">>} =>
                  /\ Len(timers') > Len(timers)
                  /\ LET tm == timers'[Len(timers')] IN
                        tm.kind = "modality" /\ tm.rem = 3 /\ tm.arg = "PROMETHEUS" /\ tm.by = "handleCommand"
            /\ cmd \notin {<<"e", "x", "i", "t">>, <<"p", "r", "o", "m", "e", "t", "h", "e", "u", "s">>} => timers' = timers]_vars
    /\ [][(lastCall'.op = "modalityTimer" /\ lastCall'.by = "handleCommand") =>
            modality' = "PROMETHEUS"]_vars
    /\ [][(ModalityTimerPending /\ lastCall'.op = "tick") =>
            \A i \in 1..Len(timers) : timers[i].rem > 0 /\ timers'[i].rem = timers[i].rem - 1]_vars
    /\ (lastCall.op = "handleCommand" /\ lastCall.cmd \in {<<"e", "x", "i", "t">>, <<"p", "r", "o", "m", "e", "t", "h", "e", "u", "s">>})
          ~> (lastCall.op = "modalityTimer" /\ lastCall.by = "handleCommand" /\ modality = "PROMETHEUS")
    /\ <>[](timers = <<>>)

\* 'PROMETHEUS' was typed in VOID after an unrecognised command, and its timer
\* has brought hyper-reality back
C13_Witness ==
    /\ lastCall.op = "modalityTimer"
    /\ lastCall.by = "handleCommand"
    /\ modality = "PROMETHEUS"
    /\ \E i \in 1..Len(termLogs) : termLogs[i].kind = "unrecognized"

\* C14: in every state where the modality is VOID and the transition has
\* completed, the target of the audio engine's master gain is 0 (or there is
\* no audio graph), whatever the mood and intensity are.
C14_VoidIsSilent ==
    (modality = "VOID" /\ timers = <<>> /\ audioReady) => gainTarget = Dec(0, 0)

\* the integer x.m * 10^(e - x.e): the decimal x counted in units of 10^-e
Units(x, e) == x.m * Pow10(e - x.e)
Abs(n) == IF n >= 0 THEN n ELSE 0 - n
MaxOf(S) == CHOOSE n \in S : \A k \in S : k <= n

\* the square of the integer n, |n| < 10^8, as digits to the base 10^4 before
\* the carries, and the sum of three of them with the carries made
SquareLimbs(n) ==
    LET hi == Abs(n) \div 10000
        lo == Abs(n) % 10000
    IN << hi * hi, 2 * hi * lo, lo * lo >>
SumOfSquares(v) ==
    LET s == [k \in 1..3 |-> SquareLimbs(v[1])[k] + SquareLimbs(v[2])[k] + SquareLimbs(v[3])[k]]
        c1 == s[2] + (s[3] \div 10000)
    IN << s[1] + (c1 \div 10000), c1 % 10000, s[3] % 10000 >>
LimbsLeq(a, b) ==
    \/ a[1] < b[1]
    \/ a[1] = b[1] /\ a[2] < b[2]
    \/ a[1] = b[1] /\ a[2] = b[2] /\ a[3] <= b[3]

\* the Euclidean distance from p to f is at most the one from q to f
NotFarther(p, q, f) ==
    LET e == MaxOf({p[i].e : i \in 1..3} \cup {q[i].e : i \in 1..3} \cup {f[i].e : i \in 1..3})
        dp == [i \in 1..3 |-> Units(p[i], e) - Units(f[i], e)]
        dq == [i \in 1..3 |-> Units(q[i], e) - Units(f[i], e)]
    IN LimbsLeq(SumOfSquares(dp), SumOfSquares(dq))

\* cameraFocus + (0, 2, 5)
FinalPos(target) == << Dec(target[1], 0), Dec(target[2] + 2, 0), Dec(target[3] + 5, 0) >>

GlitchTimerPending == \E k \in 1..Len(timers) : timers[k].kind = "glitch" /\ timers[k].rem > 0

\* C23: while the timer of a glitch pulse has time left to run glitchFactor is
\* 1: the timer of an earlier pulse does not reset it before the timer of the
\* most recently started pulse is due.
C23_PulsesNotCutShort == GlitchTimerPending => glitchFactor = Dec(1, 0)

----------------------------------------------------------------------------
(* Claims about the universe shader *)

\* C16: for every universe id of the UNIVERSES table the branch of
\* universeFunction that the id selects is the one labelled with that
\* universe's name, and no other id of the table selects the same branch.
C16_OwnBranch ==
    (lastCall.op = "vertex") =>
        LET taken == shaderTerms[1].term.branch IN
        /\ taken = UniverseNames[uUniverseId + 1]
        /\ \A other \in UniverseIds \ {uUniverseId} :
              universeFunction(Dec(0, 0), other).branch # taken

----------------------------------------------------------------------------
(* Claims about IntelligenceTerminal *)

FallbackPending == \E k \in 1..Len(timers) : timers[k].kind = "fallback"

C19_LoadingUntilResponse == (itCalls # <<>> \/ FallbackPending) => itLoading

----------------------------------------------------------------------------
(* Claims about the dashboard of EvolvedRealityEngine *)

BootOverlay == loading /\ ~connected

\* the poll with this id, while it is in flight
PollIn(ps, id) == ps[CHOOSE i \in 1..Len(ps) : ps[i].id = id]
InFlightIn(ps, id) == \E i \in 1..Len(ps) : ps[i].id = id

PollInFlight(id) == \E i \in 1..Len(polls) : polls[i].id = id

\* C21: polls set the state in the order they started: when a poll sets
\* metrics, logs and portfolio, every poll started after it is still in flight.
C21_PollsAppliedInOrder ==
    [][(lastCall'.op = "safeFetch" /\ Len(polls') < Len(polls)) =>
          \A later \in (lastCall'.poll + 1)..pollsStarted : PollInFlight(later)]_vars

----------------------------------------------------------------------------
(* Claims about the chat of EvolvedRealityEngine *)

EngineEntriesFor(re) == {i \in 1..Len(chatHistory) : chatHistory[i].role = "engine" /\ chatHistory[i].re = re}
UserEntriesFor(re) == {i \in 1..Len(chatHistory) : chatHistory[i].role = "user" /\ chatHistory[i].re = re}

C22_RepliesKeepOrder ==
    \A i, j \in 1..Len(chatHistory) :
        (i < j /\ chatHistory[i].role = "engine" /\ chatHistory[j].role = "engine") =>
            chatHistory[i].re < chatHistory[j].re

====
